---- MODULE Spec2Model ----
(***************************************************************************)
(* A model of the Velox Mercado Livre bot: the OAuth token lifecycle       *)
(* (oauthRefresh, mlFetchWithAutoRefresh), the /ml/webhook pipeline of     *)
(* src/server.js, the /ml/callback replay guard (usedCodes) of the variant *)
(* src/unnamed/part_003, and the /ml/connect configuration check of the    *)
(* variant src/unnamed/part_000.                                           *)
(*                                                                         *)
(* Every "await" of a handler is one action: it performs the awaited       *)
(* operation with an outcome chosen by the environment (database, token    *)
(* endpoint, marketplace API, inference API) and then runs the             *)
(* synchronous code that follows, up to the next await.                    *)
(***************************************************************************)
EXTENDS Integers, Sequences, FiniteSets, TLC

(***************************************************************************)
(* Strings are tuples of one-character strings, so that toLowerCase,       *)
(* includes, split and pop are computed and not assumed.                   *)
(***************************************************************************)
UpperCase == <<"A","B","C","D","E","F","G","H","I","J","K","L","M",
               "N","O","P","Q","R","S","T","U","V","W","X","Y","Z">>
LowerCase == <<"a","b","c","d","e","f","g","h","i","j","k","l","m",
               "n","o","p","q","r","s","t","u","v","w","x","y","z">>

LowerChar(c) ==
  IF \E i \in 1..Len(UpperCase) : UpperCase[i] = c
  THEN LowerCase[CHOOSE i \in 1..Len(UpperCase) : UpperCase[i] = c]
  ELSE c

ToLowerCase(s) == [i \in 1..Len(s) |-> LowerChar(s[i])]

Includes(s, sub) ==
  \E i \in 0..(Len(s) - Len(sub)) : SubSeq(s, i + 1, i + Len(sub)) = sub

RECURSIVE Split(_, _)
Split(s, c) ==
  IF \E i \in 1..Len(s) : s[i] = c
  THEN LET i == CHOOSE k \in 1..Len(s) : s[k] = c /\ \A j \in 1..(k - 1) : s[j] # c
       IN  <<SubSeq(s, 1, i - 1)>> \o Split(SubSeq(s, i + 1, Len(s)), c)
  ELSE <<s>>

Pop(a) == a[Len(a)]

sQuestions  == <<"q","u","e","s","t","i","o","n","s">>
sQuestionsU == <<"Q","u","e","s","t","i","o","n","s">>
sOrders     == <<"o","r","d","e","r","s","_","v","2">>
sQuestionPath == <<"/">> \o sQuestions \o <<"/">>
sRes555 == sQuestionPath \o <<"5","5","5">>
sRes556 == sQuestionPath \o <<"5","5","6">>
sResOrder == <<"/","o","r","d","e","r","s","/","9">>

\* A JSON value of the webhook body, with its JavaScript type.
Undef  == [t |-> "undefined", v |-> <<>>]
Num    == [t |-> "number", v |-> <<>>]
Str(s) == [t |-> "string", v |-> s]

\* JavaScript truthiness of a body field (the modelled number is non-zero).
Truthy(x) == x.t = "number" \/ (x.t = "string" /\ x.v # <<>>)

Digits == <<"0","1","2","3","4","5","6","7","8","9">>
DigitVal(c) == (CHOOSE i \in 1..10 : Digits[i] = c) - 1

RECURSIVE ParseId(_)
\* The number a decimal path segment names.
ParseId(s) ==
  IF s = <<>> THEN 0
  ELSE 10 * ParseId(SubSeq(s, 1, Len(s) - 1)) + DigitVal(s[Len(s)])

(***************************************************************************)
(* Texts are sequences of runs of characters; only the kind of a run       *)
(* (plain text, an off-platform contact term, the canonical replacement,   *)
(* the static fallback) and its length matter.                             *)
(***************************************************************************)
Run(k, n) == [k |-> k, n |-> n]

RECURSIVE TextLen(_)
TextLen(t) == IF t = <<>> THEN 0 ELSE Head(t).n + TextLen(Tail(t))

MaxAnswerLen == 900
CanonLen == 25
FallbackLen == 40

FallbackText == <<Run("fallback", FallbackLen)>>

\* text.replace(/whats(app)?|telegram|instagram|contato\s+externo/gi, ...)
ReplaceContacts(t) ==
  [i \in 1..Len(t) |-> IF t[i].k = "contact" THEN Run("canon", CanonLen) ELSE t[i]]

RECURSIVE Slice(_, _)
\* text.slice(0, n)
Slice(t, n) ==
  IF t = <<>> \/ n <= 0 THEN <<>>
  ELSE IF Head(t).n <= n THEN <<Head(t)>> \o Slice(Tail(t), n - Head(t).n)
  ELSE <<Run(Head(t).k, n)>>

(***************************************************************************)
(* The environment: what the webhook sender, the marketplace API, the      *)
(* token endpoint and the inference API may send.                          *)
(***************************************************************************)
Users == {42, 43}
ItemIds == {<<"M","L","B","1">>}

Topics == {Undef, Num, Str(sOrders), Str(sQuestionsU)}
Resources == {Undef, Num, Str(sResOrder), Str(sRes555), Str(sRes556)}
Payloads == [topic : Topics, resource : Resources, user_id : Users]

\* HTTP statuses of the marketplace API, and what reading a body yields:
\* a JSON document, or a failed read.
Statuses == {200, 401, 500}
Bodies == {"json", "unreadable"}
MlResponses == [status : Statuses, body : Bodies]
Ok(resp) == resp.status >= 200 /\ resp.status <= 299

\* Token endpoint answers; "none" and NoTtl stand for an absent field.
NoTtl == -1
IssuedAccess == {"at2"}
IssuedRefresh == {"rt2"}
TokResponses ==
  [access_token : IssuedAccess \cup {"none"},
   refresh_token : IssuedRefresh \cup {"none"},
   expires_in : {NoTtl, 0, 3600}]
NoTok == [access_token |-> "none", refresh_token |-> "none", expires_in |-> NoTtl]

\* Inference API bodies: no JSON, a JSON object, or an array whose first
\* element may carry generated_text.
GenTexts ==
  {<<>>,
   <<Run("plain", 880), Run("contact", 8), Run("plain", 30)>>}
HfData == [shape : {"nonjson", "object", "array"}, generated_text : GenTexts]

DefaultTtl == 21600

\* The clock advances in steps of TickMs, MaxTicks times at most.
TickMs == 60000
MaxTicks == 4

(***************************************************************************)
(* State.                                                                  *)
(*   tokens    the tokens table: rows ml_user_id, access_token,            *)
(*             refresh_token, expires_at                                   *)
(*   answers   the answers table: rows question_id, final, mode            *)
(*   wh        the /ml/webhook requests being handled, one per slot        *)
(*   cb        the /ml/callback requests being handled, one per slot       *)
(*   usedCodes the replay guard: authorization code -> first-seen time     *)
(*   timers    the pending setTimeout callbacks of the replay guard        *)
(*   now       Date.now(), in milliseconds                                 *)
(*   inbox     the notifications the marketplace may deliver               *)
(*   upstream  the answers the marketplace API may give                    *)
(*   provider  the answers the token endpoint may give to a code exchange  *)
(*   env       process.env: the OAuth client configuration                 *)
(*   cn        the /ml/connect request being handled                       *)
(*   lastAccept  history: when each code last passed the replay guard      *)
(***************************************************************************)
VARIABLES tokens, answers, wh, cb, usedCodes, timers, now, inbox, upstream, provider, env, cn, lastAccept

vars == <<tokens, answers, wh, cb, usedCodes, timers, now, inbox, upstream, provider, env, cn, lastAccept>>

\* What the webhook pipeline leaves alone besides the tables.
oauthVars == <<cb, usedCodes, timers, lastAccept>>

Webhooks == {"w1", "w2"}

NoUrl  == [ep |-> "none", arg |-> <<>>]
NoBody == [question_id |-> -1, text |-> <<>>]
NoQ    == [id |-> -1, item_id |-> <<>>]
NoErr  == [name |-> "none", status |-> 0, text |-> ""]
Err(name) == [name |-> name, status |-> 0, text |-> ""]

\* One operation of a request, as recorded in its log: a marketplace call
\* ("ml"), an invocation of oauthRefresh ("refresh"), a token endpoint call
\* ("oauth"), an inference call ("hf"), a database read or write. status is the
\* HTTP status (0: no response), resp what came back (a body, a token).
Ev(kind, call, url, token, status, body, resp) ==
  [kind |-> kind, call |-> call, url |-> url, token |-> token,
   status |-> status, body |-> body, resp |-> resp]

\* A slot with no request.
IdleProc ==
  [pc |-> "idle", topic |-> Undef, resource |-> Undef, user_id |-> 0,
   qId |-> <<>>, token |-> "none", call |-> "none", url |-> NoUrl,
   body |-> NoBody, q |-> NoQ, answer |-> <<>>, rtok |-> "none",
   tok |-> NoTok, expiresAt |-> 0, newToken |-> "none",
   log |-> <<>>, sent |-> <<>>, err |-> NoErr]

OffProc == [IdleProc EXCEPT !.pc = "off"]

\* res.sendStatus(status): the request is answered.
Respond(r, status) == [r EXCEPT !.pc = "done", !.sent = Append(@, status)]

\* Faulty variant: the catch block reports the failure to the sender.
WebhookCatch_500(r, e) == Respond([r EXCEPT !.err = e], 500)

\* The catch block of /ml/webhook: log the error, answer 200.
WebhookCatch(r, e) == Respond([r EXCEPT !.err = e], 200)

\* An exception leaves the running function; in the webhook it reaches the
\* handler's catch block, in a direct call of oauthRefresh it reaches the caller.
Throw(r, e) ==
  IF r.call = "direct"
  THEN [r EXCEPT !.pc = "thrown", !.err = e]
  ELSE WebhookCatch(r, e)

Logged(r, e) == [r EXCEPT !.log = Append(@, e)]

\* mlFetchWithAutoRefresh(url, user_id, token, opts) up to its first fetch.
MlCall(r, call, url, body) ==
  [r EXCEPT !.call = call, !.url = url, !.body = body, !.pc = "ml_fetch1"]

(***************************************************************************)
(* POST /ml/webhook: the synchronous head of the handler.                  *)
(***************************************************************************)
\* Faulty variant: every notification with a resource is taken for a question.
WebhookHead_NoFilter(r) ==
  [r EXCEPT !.qId = Pop(Split(r.resource.v, "/")), !.pc = "wh_select"]

WebhookHead(r) ==
  IF Truthy(r.topic) /\ r.topic.t # "string"
  THEN WebhookCatch(r, Err("TypeError"))          \* topic.toLowerCase is not a function
  ELSE IF ~(Truthy(r.topic) /\ Includes(ToLowerCase(r.topic.v), sQuestions))
  THEN Respond(r, 200)
  ELSE IF ~Truthy(r.resource)
  THEN Respond(r, 200)
  ELSE IF r.resource.t # "string"
  THEN WebhookCatch(r, Err("TypeError"))          \* resource.includes is not a function
  ELSE IF ~Includes(r.resource.v, sQuestionPath)
  THEN Respond(r, 200)
  ELSE [r EXCEPT !.qId = Pop(Split(r.resource.v, "/")), !.pc = "wh_select"]

WebhookArrive(p) ==
  /\ wh[p].pc = "idle"
  /\ \E pl \in inbox :
       wh' = [wh EXCEPT ![p] =
                WebhookHead([IdleProc EXCEPT !.topic = pl.topic,
                                             !.resource = pl.resource,
                                             !.user_id = pl.user_id])]
  /\ UNCHANGED <<tokens, answers, now, inbox, upstream, provider, env, cn, oauthVars>>

\* select access_token from tokens where ml_user_id = $1
SelectToken(uid) == {t \in tokens : t.ml_user_id = uid}

QuestionUrl(qId) == [ep |-> "questions", arg |-> qId]
ItemUrl(itemId)  == [ep |-> "items", arg |-> itemId]
AnswersUrl       == [ep |-> "answers", arg |-> <<>>]
TokensTable      == [ep |-> "tokens", arg |-> <<>>]
AnswersTable     == [ep |-> "answers_table", arg |-> <<>>]
OauthUrl         == [ep |-> "oauth/token", arg |-> <<>>]
HfUrl            == [ep |-> "huggingface", arg |-> <<>>]

\* Faulty variant: a token whose stored expiry has passed is refreshed before
\* the first call.
WebhookSelectStep_RefreshExpired(r) ==
  LET rows == SelectToken(r.user_id)
      r1   == Logged(r, Ev("db_read", "none", TokensTable, "none", 0, NoBody, ""))
  IN  IF rows = {}
      THEN Respond(r1, 200)
      ELSE LET r2 == MlCall([r1 EXCEPT !.token = (CHOOSE t \in rows : TRUE).access_token],
                            "question", QuestionUrl(r.qId), NoBody)
           IN  IF \E t \in rows : t.expires_at <= now
               THEN [Logged(r2, Ev("refresh", r2.call, NoUrl, "none", 0, NoBody, ""))
                       EXCEPT !.pc = "rf_select"]
               ELSE r2

\* Faulty variant: the lookup result is not inspected and the pipeline goes on.
WebhookSelectStep_NoCheck(r) ==
  LET rows == SelectToken(r.user_id)
      r1   == Logged(r, Ev("db_read", "none", TokensTable, "none", 0, NoBody, ""))
  IN  MlCall([r1 EXCEPT !.token = IF rows = {} THEN "undefined"
                                  ELSE (CHOOSE t \in rows : TRUE).access_token],
             "question", QuestionUrl(r.qId), NoBody)

WebhookSelectStep(r) ==
  LET rows == SelectToken(r.user_id)
      r1   == Logged(r, Ev("db_read", "none", TokensTable, "none", 0, NoBody, ""))
  IN  IF rows = {}
      THEN Respond(r1, 200)
      ELSE MlCall([r1 EXCEPT !.token = (CHOOSE t \in rows : TRUE).access_token],
                  "question", QuestionUrl(r.qId), NoBody)

WebhookSelect(p) ==
  /\ wh[p].pc = "wh_select"
  /\ \/ wh' = [wh EXCEPT ![p] = WebhookSelectStep(wh[p])]
     \/ wh' = [wh EXCEPT ![p] = Throw(wh[p], Err("DbError"))]
  /\ UNCHANGED <<tokens, answers, now, inbox, upstream, provider, env, cn, oauthVars>>

(***************************************************************************)
(* mlFetchWithAutoRefresh.                                                 *)
(***************************************************************************)
\* generateAI begins: its fetch is the next await.
AiCall(r) == [r EXCEPT !.pc = "ai_fetch"]

\* Faulty variant: the item fetch is given the token a refresh returned, if any.
MlReturn_PassNew(r, q) ==
  CASE r.call = "question" ->
         MlCall([r EXCEPT !.q = q,
                          !.token = IF r.newToken # "none" THEN r.newToken ELSE r.token],
                "item", ItemUrl(q.item_id), NoBody)
    [] r.call = "item"     -> AiCall(r)
    [] r.call = "answer"   -> [r EXCEPT !.pc = "ans_upsert"]

\* Faulty variant: the text is generated right after the question fetch.
MlReturn_SkipItem(r, q) ==
  CASE r.call = "question" -> AiCall([r EXCEPT !.q = q])
    [] r.call = "item"     -> AiCall(r)
    [] r.call = "answer"   -> [r EXCEPT !.pc = "ans_upsert"]

\* What the handler does with the JSON a marketplace call returned.
MlReturn(r, q) ==
  CASE r.call = "question" -> MlCall([r EXCEPT !.q = q], "item", ItemUrl(q.item_id), NoBody)
    [] r.call = "item"     -> AiCall(r)
    [] r.call = "answer"   -> [r EXCEPT !.pc = "ans_upsert"]

\* Faulty variant: a failure status is not noticed and the handler goes on.
MlFinish_Continue(r, resp, q) ==
  IF resp.body # "json"
  THEN Throw(r, Err("BodyError"))
  ELSE MlReturn(r, q)

\* if (!res.ok) throw new Error(`ML ${status} ... ${text}`); return res.json()
MlFinish(r, resp, q) ==
  IF ~Ok(resp)
  THEN Throw(r, [name |-> "ML", status |-> resp.status,
                 text |-> IF resp.body = "unreadable" THEN "" ELSE resp.body])
  ELSE IF resp.body # "json"
  THEN Throw(r, Err("BodyError"))
  ELSE MlReturn(r, q)

\* The question the marketplace returns for GET /questions/<qId>.
QuestionsFor(qId) == [id : {ParseId(qId)}, item_id : ItemIds]

\* let res = await doFetch(access_token); if (res.status === 401) ...
\* Faulty variant: any failed first attempt refreshes the token.
MlFetch1Step_RefreshAny(r, resp, q) ==
  IF ~Ok(resp)
  THEN [Logged(Logged(r, Ev("ml", r.call, r.url, r.token, resp.status, r.body, "")),
               Ev("refresh", r.call, NoUrl, "none", 0, NoBody, ""))
          EXCEPT !.pc = "rf_select"]
  ELSE MlFinish(Logged(r, Ev("ml", r.call, r.url, r.token, resp.status, r.body, resp.body)),
                resp, q)

\* (the body of a 401 answer is never read)
MlFetch1Step(r, resp, q) ==
  IF resp.status = 401
  THEN [Logged(Logged(r, Ev("ml", r.call, r.url, r.token, 401, r.body, "")),
               Ev("refresh", r.call, NoUrl, "none", 0, NoBody, ""))
          EXCEPT !.pc = "rf_select"]
  ELSE MlFinish(Logged(r, Ev("ml", r.call, r.url, r.token, resp.status, r.body, resp.body)),
                resp, q)

MlFetch1(p) ==
  /\ wh[p].pc = "ml_fetch1"
  /\ \/ \E resp \in upstream, q \in QuestionsFor(wh[p].qId) :
          wh' = [wh EXCEPT ![p] = MlFetch1Step(wh[p], resp, q)]
     \/ wh' = [wh EXCEPT ![p] =
                 Throw(Logged(wh[p], Ev("ml", wh[p].call, wh[p].url, wh[p].token, 0, wh[p].body, "")),
                       Err("NetworkError"))]
  /\ UNCHANGED <<tokens, answers, now, inbox, upstream, provider, env, cn, oauthVars>>

\* Faulty variant: the retry is treated like a first attempt, so a 401 refreshes again.
MlFetch2Step_Loop(r, resp, q) == MlFetch1Step([r EXCEPT !.token = r.newToken], resp, q)

\* res = await doFetch(newToken)
MlFetch2Step(r, resp, q) ==
  MlFinish(Logged(r, Ev("ml", r.call, r.url, r.newToken, resp.status, r.body, resp.body)), resp, q)

MlFetch2(p) ==
  /\ wh[p].pc = "ml_fetch2"
  /\ \/ \E resp \in upstream, q \in QuestionsFor(wh[p].qId) :
          wh' = [wh EXCEPT ![p] = MlFetch2Step(wh[p], resp, q)]
     \/ wh' = [wh EXCEPT ![p] =
                 Throw(Logged(wh[p], Ev("ml", wh[p].call, wh[p].url, wh[p].newToken, 0, wh[p].body, "")),
                       Err("NetworkError"))]
  /\ UNCHANGED <<tokens, answers, now, inbox, upstream, provider, env, cn, oauthVars>>

(***************************************************************************)
(* oauthRefresh.                                                           *)
(***************************************************************************)
\* Faulty variant: the missing row is not noticed and the grant is posted anyway.
RfSelectStep_NoCheck(r) ==
  LET rows == SelectToken(r.user_id)
      r1   == Logged(r, Ev("db_read", r.call, TokensTable, "none", 0, NoBody, ""))
  IN  [r1 EXCEPT !.rtok = IF rows = {} THEN "none"
                          ELSE (CHOOSE t \in rows : TRUE).refresh_token,
                 !.pc = "rf_fetch"]

\* select refresh_token from tokens where ml_user_id = $1
RfSelectStep(r) ==
  LET rows == SelectToken(r.user_id)
      r1   == Logged(r, Ev("db_read", r.call, TokensTable, "none", 0, NoBody, ""))
  IN  IF rows = {}
      THEN Throw(r1, Err("refresh_token nao encontrado"))
      ELSE [r1 EXCEPT !.rtok = (CHOOSE t \in rows : TRUE).refresh_token,
                      !.pc = "rf_fetch"]

RfSelect(p) ==
  /\ wh[p].pc = "rf_select"
  /\ \/ wh' = [wh EXCEPT ![p] = RfSelectStep(wh[p])]
     \/ wh' = [wh EXCEPT ![p] = Throw(wh[p], Err("DbError"))]
  /\ UNCHANGED <<tokens, answers, now, inbox, upstream, provider, env, cn, oauthVars>>

\* (tok.expires_in || 21600)
Ttl(expires_in) == IF expires_in = NoTtl \/ expires_in = 0 THEN DefaultTtl ELSE expires_in

\* new Date(Date.now() + (tok.expires_in || 21600) * 1000)
ExpiresAt(t, expires_in) == t + Ttl(expires_in) * 1000

\* The token endpoint answered with JSON tok.
RfFetchStep(r, tok, t) ==
  LET r1 == Logged(r, Ev("oauth", r.call, OauthUrl, r.rtok, 200, NoBody, tok.access_token))
  IN  IF tok.access_token = "none"
      THEN Throw(r1, Err("Falha no refresh_token"))
      ELSE [r1 EXCEPT !.tok = tok, !.expiresAt = ExpiresAt(t, tok.expires_in),
                      !.pc = "rf_update"]

RfFetch(p) ==
  /\ wh[p].pc = "rf_fetch"
  /\ \/ \E tok \in TokResponses : wh' = [wh EXCEPT ![p] = RfFetchStep(wh[p], tok, now)]
     \/ wh' = [wh EXCEPT ![p] =
                 Throw(Logged(wh[p], Ev("oauth", wh[p].call, OauthUrl, wh[p].rtok, 0, NoBody, "")),
                       Err("NetworkError"))]
  /\ UNCHANGED <<tokens, answers, now, inbox, upstream, provider, env, cn, oauthVars>>

\* Faulty variant: the stored refresh_token is overwritten by whatever came back.
Coalesce_First(a, b) == a

\* coalesce($2, refresh_token)
Coalesce(a, b) == IF a # "none" THEN a ELSE b

\* Faulty variant: the new tokens are kept in memory only.
UpdateTokens_Skip(rows, access, refresh, expiresAt, uid) == rows

\* update tokens set access_token = $1, refresh_token = coalesce($2, refresh_token),
\*        expires_at = $3 where ml_user_id = $4
UpdateTokens(rows, access, refresh, expiresAt, uid) ==
  {IF t.ml_user_id = uid
   THEN [t EXCEPT !.access_token = access,
                  !.refresh_token = Coalesce(refresh, t.refresh_token),
                  !.expires_at = expiresAt]
   ELSE t : t \in rows}

\* The update is done; oauthRefresh returns tok.access_token to its caller.
RfReturn(r) ==
  LET r1 == Logged([r EXCEPT !.newToken = r.tok.access_token],
                   Ev("db_write", r.call, TokensTable, "none", 0, NoBody, r.tok.access_token))
  IN  IF r.call = "direct"
      THEN [r1 EXCEPT !.pc = "returned"]
      ELSE [r1 EXCEPT !.pc = "ml_fetch2"]

RfUpdate(p) ==
  /\ wh[p].pc = "rf_update"
  /\ \/ /\ tokens' = UpdateTokens(tokens, wh[p].tok.access_token, wh[p].tok.refresh_token,
                                  wh[p].expiresAt, wh[p].user_id)
        /\ wh' = [wh EXCEPT ![p] = RfReturn(wh[p])]
     \/ /\ wh' = [wh EXCEPT ![p] = Throw(wh[p], Err("DbError"))]
        /\ UNCHANGED tokens
  /\ UNCHANGED <<answers, now, inbox, upstream, provider, env, cn, oauthVars>>

(***************************************************************************)
(* generateAI and the answers upsert.                                      *)
(***************************************************************************)
\* Array.isArray(data) && data[0]?.generated_text ? data[0].generated_text : fallback
PickText(data) ==
  IF data.shape = "array" /\ data.generated_text # <<>>
  THEN data.generated_text
  ELSE FallbackText

\* Faulty variant: the text is cut first and the contact terms replaced afterwards.
PostProcess_SliceFirst(text) == ReplaceContacts(Slice(text, MaxAnswerLen))

\* text.replace(...).slice(0, 900)
PostProcess(text) == Slice(ReplaceContacts(text), MaxAnswerLen)

AiFetchStep(r, data) ==
  LET answer == PostProcess(PickText(data))
      r1     == Logged([r EXCEPT !.answer = answer],
                       Ev("hf", "none", HfUrl, "none", 200, NoBody, ""))
  IN  MlCall(r1, "answer", AnswersUrl, [question_id |-> r.q.id, text |-> answer])

AiFetch(p) ==
  /\ wh[p].pc = "ai_fetch"
  /\ \/ \E data \in HfData : wh' = [wh EXCEPT ![p] = AiFetchStep(wh[p], data)]
     \/ wh' = [wh EXCEPT ![p] =
                 Throw(Logged(wh[p], Ev("hf", "none", HfUrl, "none", 0, NoBody, "")),
                       Err("NetworkError"))]
  /\ UNCHANGED <<tokens, answers, now, inbox, upstream, provider, env, cn, oauthVars>>

\* Faulty variant: a plain insert, without the on conflict clause.
UpsertAnswer_Insert(rows, qid, text) ==
  rows \cup {[question_id |-> qid, final |-> text, mode |-> "auto"]}

\* insert into answers ... on conflict (question_id) do update set final=$2, mode='auto'
UpsertAnswer(rows, qid, text) ==
  IF \E a \in rows : a.question_id = qid
  THEN {IF a.question_id = qid THEN [a EXCEPT !.final = text, !.mode = "auto"] ELSE a
        : a \in rows}
  ELSE rows \cup {[question_id |-> qid, final |-> text, mode |-> "auto"]}

AnsUpsertStep(r) ==
  Respond(Logged(r, Ev("db_write", "none", AnswersTable, "none", 0, r.body, "")), 200)

AnsUpsert(p) ==
  /\ wh[p].pc = "ans_upsert"
  /\ \/ /\ answers' = UpsertAnswer(answers, wh[p].q.id, wh[p].answer)
        /\ wh' = [wh EXCEPT ![p] = AnsUpsertStep(wh[p])]
     \/ /\ wh' = [wh EXCEPT ![p] = Throw(wh[p], Err("DbError"))]
        /\ UNCHANGED answers
  /\ UNCHANGED <<tokens, now, inbox, upstream, provider, env, cn, oauthVars>>

\* The connection is free for the next notification.
WebhookNext(p) ==
  /\ wh[p].pc = "done"
  /\ wh' = [wh EXCEPT ![p] = IdleProc]
  /\ UNCHANGED <<tokens, answers, now, inbox, upstream, provider, env, cn, oauthVars>>

(***************************************************************************)
(* GET /ml/callback with the replay guard (src/unnamed/part_003).          *)
(***************************************************************************)
Callbacks == {"c1", "c2"}
Codes == {"codeA", "codeB"}
\* req.query.code; "" stands for a request without code.
QueryCodes == Codes \cup {""}

ReplayWindowMs == 2 * 60 * 1000

\* What the token endpoint answers to an authorization_code grant, and the
\* id /users/me reports (0: a body without id).
ExchangeResponses ==
  [ok : BOOLEAN, access_token : {"at1", "none"}, refresh_token : {"rt1", "none"},
   expires_in : {NoTtl, 3600}]
MeIds == {0, 42}

IdleCb ==
  [pc |-> "idle", code |-> "", tok |-> NoTok, meId |-> 0, expiresAt |-> 0,
   sent |-> <<>>, err |-> NoErr]

OffCb == [IdleCb EXCEPT !.pc = "off"]

\* res.status(s).send(...)
\* (the handler has returned: its locals are gone)
CbRespond(r, status) ==
  [r EXCEPT !.pc = "done", !.sent = Append(@, status),
            !.tok = NoTok, !.meId = 0, !.expiresAt = 0]

\* The catch block of /ml/callback.
CbCatch(r, e) == CbRespond([r EXCEPT !.err = e], 500)

\* usedCodes.has(code) && now - usedCodes.get(code) < 2 * 60 * 1000
IsReplay(code, t) ==
  code \in DOMAIN usedCodes /\ t - usedCodes[code] < ReplayWindowMs

\* usedCodes.set(code, now)
MapSet(m, k, v) == [x \in DOMAIN m \cup {k} |-> IF x = k THEN v ELSE m[x]]

\* Faulty variant: the eviction forgets to delete.
MapDelete_Keep(m, k) == m

\* usedCodes.delete(code)
MapDelete(m, k) == [x \in DOMAIN m \ {k} |-> m[x]]

\* A timer set now can only fire while the modelled clock still runs.
ClockCovers(t) == t + ReplayWindowMs <= MaxTicks * TickMs

\* Faulty variant: a rejected replay refreshes the first-seen time of its code.
CallbackArrive_Refresh(p) ==
  /\ cb[p].pc = "idle"
  /\ \E code \in QueryCodes :
       LET r == [IdleCb EXCEPT !.code = code] IN
       IF code = ""
       THEN /\ cb' = [cb EXCEPT ![p] = CbRespond(r, 400)]
            /\ UNCHANGED <<usedCodes, timers, lastAccept>>
       ELSE IF IsReplay(code, now)
       THEN /\ cb' = [cb EXCEPT ![p] = CbRespond(r, 400)]
            /\ usedCodes' = MapSet(usedCodes, code, now)
            /\ UNCHANGED <<timers, lastAccept>>
       ELSE /\ ClockCovers(now)
            /\ usedCodes' = MapSet(usedCodes, code, now)
            /\ timers' = Append(timers, [code |-> code, due |-> now + ReplayWindowMs])
            /\ lastAccept' = [lastAccept EXCEPT ![code] = now]
            /\ cb' = [cb EXCEPT ![p] = [r EXCEPT !.pc = "cb_exchange"]]
  /\ UNCHANGED <<tokens, answers, wh, now, inbox, upstream, provider, env, cn>>

\* const { code } = req.query; ...; usedCodes.set(code, now); setTimeout(...)
CallbackArrive(p) ==
  /\ cb[p].pc = "idle"
  /\ \E code \in QueryCodes :
       LET r == [IdleCb EXCEPT !.code = code] IN
       IF code = ""
       THEN /\ cb' = [cb EXCEPT ![p] = CbRespond(r, 400)]
            /\ UNCHANGED <<usedCodes, timers, lastAccept>>
       ELSE IF IsReplay(code, now)
       THEN /\ cb' = [cb EXCEPT ![p] = CbRespond(r, 400)]
            /\ UNCHANGED <<usedCodes, timers, lastAccept>>
       ELSE /\ ClockCovers(now)
            /\ usedCodes' = MapSet(usedCodes, code, now)
            /\ timers' = Append(timers, [code |-> code, due |-> now + ReplayWindowMs])
            /\ lastAccept' = [lastAccept EXCEPT ![code] = now]
            /\ cb' = [cb EXCEPT ![p] = [r EXCEPT !.pc = "cb_exchange"]]
  /\ UNCHANGED <<tokens, answers, wh, now, inbox, upstream, provider, env, cn>>

\* setTimeout(() => usedCodes.delete(code), 2 * 60 * 1000): the timer fires, on
\* time or late.
TimerFire(i) ==
  /\ i \in 1..Len(timers)
  /\ timers[i].due <= now
  /\ usedCodes' = MapDelete(usedCodes, timers[i].code)
  /\ timers' = [k \in 1..(Len(timers) - 1) |-> IF k < i THEN timers[k] ELSE timers[k + 1]]
  /\ UNCHANGED <<tokens, answers, wh, cb, now, inbox, upstream, provider, env, cn, lastAccept>>

\* const resp = await fetch(.../oauth/token); const tok = await resp.json().catch(() => ({}))
CallbackExchangeStep(r, resp) ==
  IF ~resp.ok \/ resp.access_token = "none"
  THEN CbRespond(r, 400)
  ELSE [r EXCEPT !.tok = [access_token |-> resp.access_token,
                          refresh_token |-> resp.refresh_token,
                          expires_in |-> resp.expires_in],
                 !.pc = "cb_me"]

CallbackExchange(p) ==
  /\ cb[p].pc = "cb_exchange"
  /\ \/ \E resp \in provider :
          cb' = [cb EXCEPT ![p] = CallbackExchangeStep(cb[p], resp)]
     \/ cb' = [cb EXCEPT ![p] = CbCatch(cb[p], Err("NetworkError"))]
  /\ UNCHANGED <<tokens, answers, wh, usedCodes, timers, now, inbox, upstream, provider, env, cn, lastAccept>>

\* const me = await mlFetch('/users/me', tok.access_token); if (!me?.id) ...
\* const expiresAt = new Date(Date.now() + (tok.expires_in || 21600) * 1000)
CallbackMeStep(r, id, t) ==
  IF id = 0
  THEN CbRespond(r, 400)
  ELSE [r EXCEPT !.meId = id, !.expiresAt = ExpiresAt(t, r.tok.expires_in),
                 !.pc = "cb_upsert"]

CallbackMe(p) ==
  /\ cb[p].pc = "cb_me"
  /\ \/ \E id \in MeIds : cb' = [cb EXCEPT ![p] = CallbackMeStep(cb[p], id, now)]
     \/ cb' = [cb EXCEPT ![p] = CbCatch(cb[p], Err("NetworkError"))]
  /\ UNCHANGED <<tokens, answers, wh, usedCodes, timers, now, inbox, upstream, provider, env, cn, lastAccept>>

\* Faulty variant: a plain insert, without the on conflict clause.
UpsertToken_Insert(rows, uid, access, refresh, expiresAt) ==
  rows \cup {[ml_user_id |-> uid, access_token |-> access,
              refresh_token |-> refresh, expires_at |-> expiresAt]}

\* insert into tokens ... on conflict (ml_user_id) do update set access_token = ...
UpsertToken(rows, uid, access, refresh, expiresAt) ==
  IF \E t \in rows : t.ml_user_id = uid
  THEN {IF t.ml_user_id = uid
        THEN [t EXCEPT !.access_token = access, !.refresh_token = refresh,
                       !.expires_at = expiresAt]
        ELSE t : t \in rows}
  ELSE rows \cup {[ml_user_id |-> uid, access_token |-> access,
                   refresh_token |-> refresh, expires_at |-> expiresAt]}

\* The insert runs; refresh_token is declared "text not null".
CallbackUpsert(p) ==
  /\ cb[p].pc = "cb_upsert"
  /\ \/ /\ cb[p].tok.refresh_token # "none"
        /\ tokens' = UpsertToken(tokens, cb[p].meId, cb[p].tok.access_token,
                                 cb[p].tok.refresh_token, cb[p].expiresAt)
        /\ cb' = [cb EXCEPT ![p] = CbRespond(cb[p], 200)]
     \/ /\ cb' = [cb EXCEPT ![p] = CbCatch(cb[p], Err("DbError"))]
        /\ UNCHANGED tokens
  /\ UNCHANGED <<answers, wh, usedCodes, timers, now, inbox, upstream, provider, env, cn, lastAccept>>

\* The connection is free for the next callback.
CallbackNext(p) ==
  /\ cb[p].pc = "done"
  /\ cb' = [cb EXCEPT ![p] = IdleCb]
  /\ UNCHANGED <<tokens, answers, wh, usedCodes, timers, now, inbox, upstream, provider, env, cn, lastAccept>>

(***************************************************************************)
(* GET /ml/connect with the configuration check (src/unnamed/part_000).    *)
(***************************************************************************)
\* A variable of process.env: unset ("none"), empty, or set.
ClientIds == {"none", "", "client-1"}
RedirectUris == {"none", "", "https://bot/ml/callback"}
Envs == [ML_CLIENT_ID : ClientIds, ML_REDIRECT_URI : RedirectUris]

ConfiguredEnv == [ML_CLIENT_ID |-> "client-1", ML_REDIRECT_URI |-> "https://bot/ml/callback"]

\* !x for a variable of process.env
Unset(x) == x = "none" \/ x = ""

NoLocation == [host |-> "none", response_type |-> "none", client_id |-> "none",
               redirect_uri |-> "none"]

IdleCn == [pc |-> "idle", sent |-> <<>>]
OffCn  == [IdleCn EXCEPT !.pc = "off"]

\* res.status(500).send(text) and res.redirect(url): status, body, Location.
CnSend(r, status, body, location) ==
  [r EXCEPT !.pc = "done",
            !.sent = Append(@, [status |-> status, body |-> body, location |-> location])]

\* new URL('https://auth.mercadolivre.com.br/authorization') with its search
\* parameters response_type, client_id, redirect_uri
AuthUrl(clientId, redirectUri) ==
  [host |-> "auth.mercadolivre.com.br/authorization", response_type |-> "code",
   client_id |-> clientId, redirect_uri |-> redirectUri]

\* Faulty variant: the configuration is not inspected.
ConnectHandler_NoCheck(r, e) ==
  CnSend(r, 302, "", AuthUrl(e.ML_CLIENT_ID, e.ML_REDIRECT_URI))

ConnectHandler(r, e) ==
  IF Unset(e.ML_CLIENT_ID) \/ Unset(e.ML_REDIRECT_URI)
  THEN CnSend(r, 500, "Defina ML_CLIENT_ID e ML_REDIRECT_URI", NoLocation)
  ELSE CnSend(r, 302, "", AuthUrl(e.ML_CLIENT_ID, e.ML_REDIRECT_URI))

Connect ==
  /\ cn.pc = "idle"
  /\ cn' = ConnectHandler(cn, env)
  /\ UNCHANGED <<tokens, answers, wh, cb, usedCodes, timers, now, inbox, upstream, provider, env,
                 lastAccept>>

\* The next /ml/connect request.
ConnectNext ==
  /\ cn.pc = "done"
  /\ cn' = IdleCn
  /\ UNCHANGED <<tokens, answers, wh, cb, usedCodes, timers, now, inbox, upstream, provider, env,
                 lastAccept>>

Tick ==
  /\ now < MaxTicks * TickMs
  /\ now' = now + TickMs
  /\ UNCHANGED <<tokens, answers, wh, cb, usedCodes, timers, inbox, upstream, provider, env, cn, lastAccept>>

(***************************************************************************)
(* Specifications.                                                         *)
(***************************************************************************)
\* The credential a completed /ml/callback of account 42 has stored.
Connected42 ==
  [ml_user_id |-> 42, access_token |-> "at1", refresh_token |-> "rt1",
   expires_at |-> ExpiresAt(0, NoTtl)]

Init ==
  /\ tokens = {Connected42}
  /\ answers = {}
  /\ wh = [p \in Webhooks |-> IF p = "w1" THEN IdleProc ELSE OffProc]
  /\ cb = [p \in Callbacks |-> OffCb]
  /\ usedCodes = <<>>
  /\ timers = <<>>
  /\ now = 0
  /\ inbox = Payloads
  /\ upstream = MlResponses
  /\ provider = ExchangeResponses
  /\ env = ConfiguredEnv
  /\ cn = OffCn
  /\ lastAccept = [c \in Codes |-> -1]

WebhookStep(p) ==
  \/ WebhookArrive(p)
  \/ WebhookSelect(p)
  \/ MlFetch1(p)
  \/ RfSelect(p)
  \/ RfFetch(p)
  \/ RfUpdate(p)
  \/ MlFetch2(p)
  \/ AiFetch(p)
  \/ AnsUpsert(p)

Next ==
  \/ \E p \in Webhooks : WebhookStep(p)
  \/ \E p \in Webhooks : WebhookNext(p)

Spec == Init /\ [][Next]_vars

\* Two notifications of a connected account, handled concurrently, while the
\* marketplace accepts the stored access token (it answers no 401).
QuestionsOf42 == [topic : {Str(sQuestionsU)}, resource : {Str(sRes555), Str(sRes556)},
                  user_id : {42}]

InitPair ==
  /\ tokens = {Connected42}
  /\ answers = {}
  /\ wh = [p \in Webhooks |-> IdleProc]
  /\ cb = [p \in Callbacks |-> OffCb]
  /\ usedCodes = <<>>
  /\ timers = <<>>
  /\ now = 0
  /\ inbox = QuestionsOf42
  /\ upstream = {resp \in MlResponses : resp.status # 401}
  /\ provider = ExchangeResponses
  /\ env = ConfiguredEnv
  /\ cn = OffCn
  /\ lastAccept = [c \in Codes |-> -1]

NextPair ==
  \E p \in Webhooks :
    \/ WebhookArrive(p)
    \/ WebhookSelect(p)
    \/ MlFetch1(p)
    \/ AiFetch(p)
    \/ AnsUpsert(p)

SpecPair == InitPair /\ [][NextPair]_vars

\* oauthRefresh called on its own, for any account and any Token Store.
StoredRows ==
  [ml_user_id : {42}, access_token : {"at1"}, refresh_token : {"rt1", "rt2"},
   expires_at : {ExpiresAt(0, NoTtl), ExpiresAt(0, 3600)}]
  \cup [ml_user_id : {43}, access_token : {"at1", "at2"}, refresh_token : {"rt1"},
        expires_at : {ExpiresAt(0, NoTtl)}]

DirectCall(uid) ==
  [IdleProc EXCEPT !.pc = "rf_select", !.call = "direct", !.user_id = uid,
                   !.log = <<Ev("refresh", "direct", NoUrl, "none", 0, NoBody, "")>>]

InitRefresh ==
  /\ tokens \in {rows \in SUBSET StoredRows :
                   \A a, b \in rows : a.ml_user_id = b.ml_user_id => a = b}
  /\ answers = {}
  /\ \E uid \in Users : wh = [p \in Webhooks |-> IF p = "w1" THEN DirectCall(uid) ELSE OffProc]
  /\ cb = [p \in Callbacks |-> OffCb]
  /\ usedCodes = <<>>
  /\ timers = <<>>
  /\ now = 0
  /\ inbox = {}
  /\ upstream = {}
  /\ provider = ExchangeResponses
  /\ env = ConfiguredEnv
  /\ cn = OffCn
  /\ lastAccept = [c \in Codes |-> -1]

NextRefresh == \E p \in Webhooks : RfSelect(p) \/ RfFetch(p) \/ RfUpdate(p)

SpecRefresh == InitRefresh /\ [][NextRefresh]_vars

\* The OAuth callback alone, on a fresh process: no credential stored yet.
InitOAuth ==
  /\ tokens = {}
  /\ answers = {}
  /\ wh = [p \in Webhooks |-> OffProc]
  /\ cb = [p \in Callbacks |-> IF p = "c1" THEN IdleCb ELSE OffCb]
  /\ usedCodes = <<>>
  /\ timers = <<>>
  /\ now = 0
  /\ inbox = {}
  /\ upstream = {}
  /\ provider = ExchangeResponses
  /\ env = ConfiguredEnv
  /\ cn = OffCn
  /\ lastAccept = [c \in Codes |-> -1]

CallbackStep(p) ==
  \/ CallbackArrive(p)
  \/ CallbackExchange(p)
  \/ CallbackMe(p)
  \/ CallbackUpsert(p)

TimerStep == \E i \in 1..Len(timers) : TimerFire(i)

NextOAuth ==
  \/ \E p \in Callbacks : CallbackStep(p)
  \/ \E p \in Callbacks : CallbackNext(p)
  \/ TimerStep
  \/ Tick

SpecOAuth == InitOAuth /\ [][NextOAuth]_vars

\* The same with a token endpoint that declares no TTL, where timers fire and
\* time passes.
InitFair ==
  /\ tokens = {}
  /\ answers = {}
  /\ wh = [p \in Webhooks |-> OffProc]
  /\ cb = [p \in Callbacks |-> IF p = "c1" THEN IdleCb ELSE OffCb]
  /\ usedCodes = <<>>
  /\ timers = <<>>
  /\ now = 0
  /\ inbox = {}
  /\ upstream = {}
  /\ provider = {resp \in ExchangeResponses : resp.expires_in = NoTtl}
  /\ env = ConfiguredEnv
  /\ cn = OffCn
  /\ lastAccept = [c \in Codes |-> -1]

FairSpecOAuth ==
  InitFair /\ [][NextOAuth]_vars /\ WF_vars(TimerStep) /\ WF_vars(Tick)

\* Code exchanges and refreshes on one Token Store: /ml/callback requests next
\* to calls of oauthRefresh for either account.
RefreshCall(p) ==
  /\ wh[p].pc \in {"idle", "returned", "thrown"}
  /\ \E uid \in Users : wh' = [wh EXCEPT ![p] = DirectCall(uid)]
  /\ UNCHANGED <<tokens, answers, now, inbox, upstream, provider, env, cn, oauthVars>>

InitStore ==
  /\ tokens \in {rows \in SUBSET StoredRows :
                   \A a, b \in rows : a.ml_user_id = b.ml_user_id => a = b}
  /\ answers = {}
  /\ wh = [p \in Webhooks |-> IF p = "w1" THEN IdleProc ELSE OffProc]
  /\ cb = [p \in Callbacks |-> IF p = "c1" THEN IdleCb ELSE OffCb]
  /\ usedCodes = <<>>
  /\ timers = <<>>
  /\ now = 0
  /\ inbox = {}
  /\ upstream = {}
  /\ provider = ExchangeResponses
  /\ env = ConfiguredEnv
  /\ cn = OffCn
  /\ lastAccept = [c \in Codes |-> -1]

NextStore ==
  \/ \E p \in Callbacks : CallbackStep(p)
  \/ \E p \in Callbacks : CallbackNext(p)
  \/ \E p \in Webhooks : RefreshCall(p)
  \/ \E p \in Webhooks : RfSelect(p) \/ RfFetch(p) \/ RfUpdate(p)

SpecStore == InitStore /\ [][NextStore]_vars

\* The OAuth flow under any configuration: /ml/connect requests next to
\* /ml/callback requests, on a fresh process.
InitConnect ==
  /\ tokens = {}
  /\ answers = {}
  /\ wh = [p \in Webhooks |-> OffProc]
  /\ cb = [p \in Callbacks |-> IF p = "c1" THEN IdleCb ELSE OffCb]
  /\ usedCodes = <<>>
  /\ timers = <<>>
  /\ now = 0
  /\ inbox = {}
  /\ upstream = {}
  /\ provider = ExchangeResponses
  /\ env \in Envs
  /\ cn = IdleCn
  /\ lastAccept = [c \in Codes |-> -1]

NextConnect ==
  \/ Connect
  \/ ConnectNext
  \/ \E p \in Callbacks : CallbackStep(p)
  \/ \E p \in Callbacks : CallbackNext(p)

SpecConnect == InitConnect /\ [][NextConnect]_vars

\* Refreshes of a connected account while time passes.
InitExpiry ==
  /\ tokens = {Connected42}
  /\ answers = {}
  /\ wh = [p \in Webhooks |-> IF p = "w1" THEN IdleProc ELSE OffProc]
  /\ cb = [p \in Callbacks |-> OffCb]
  /\ usedCodes = <<>>
  /\ timers = <<>>
  /\ now = 0
  /\ inbox = {}
  /\ upstream = {}
  /\ provider = ExchangeResponses
  /\ env = ConfiguredEnv
  /\ cn = OffCn
  /\ lastAccept = [c \in Codes |-> -1]

NextExpiry ==
  \/ \E p \in Webhooks : RefreshCall(p)
  \/ \E p \in Webhooks : RfSelect(p) \/ RfFetch(p) \/ RfUpdate(p)
  \/ Tick

SpecExpiry == InitExpiry /\ [][NextExpiry]_vars

\* Two /ml/callback requests handled concurrently on a fresh process, while
\* the token endpoint rejects every code.
InitGuard ==
  /\ tokens = {}
  /\ answers = {}
  /\ wh = [p \in Webhooks |-> OffProc]
  /\ cb = [p \in Callbacks |-> IdleCb]
  /\ usedCodes = <<>>
  /\ timers = <<>>
  /\ now = 0
  /\ inbox = {}
  /\ upstream = {}
  /\ provider = {resp \in ExchangeResponses :
                    ~resp.ok /\ resp.access_token = "none" /\ resp.refresh_token = "none"
                    /\ resp.expires_in = NoTtl}
  /\ env = ConfiguredEnv
  /\ cn = OffCn
  /\ lastAccept = [c \in Codes |-> -1]

NextGuard ==
  \/ \E p \in Callbacks : CallbackArrive(p)
  \/ \E p \in Callbacks : CallbackExchange(p)
  \/ \E p \in Callbacks : CallbackNext(p)
  \/ TimerStep
  \/ Tick

SpecGuard == InitGuard /\ [][NextGuard]_vars

\* The webhook pipeline at a time when the stored expiry of account 42 has
\* passed.
InitStale ==
  /\ tokens = {Connected42}
  /\ answers = {}
  /\ wh = [p \in Webhooks |-> IF p = "w1" THEN IdleProc ELSE OffProc]
  /\ cb = [p \in Callbacks |-> OffCb]
  /\ usedCodes = <<>>
  /\ timers = <<>>
  /\ now = Connected42.expires_at + TickMs
  /\ inbox = Payloads
  /\ upstream = MlResponses
  /\ provider = ExchangeResponses
  /\ env = ConfiguredEnv
  /\ cn = OffCn
  /\ lastAccept = [c \in Codes |-> -1]

SpecStale == InitStale /\ [][Next]_vars

(***************************************************************************)
(* Properties.                                                             *)
(***************************************************************************)
Calls == {"question", "item", "answer"}

\* The marketplace requests, the oauthRefresh invocations and the token
\* updates a request made on behalf of one mlFetchWithAutoRefresh call.
MlEvents(r, c)      == SelectSeq(r.log, LAMBDA e : e.kind = "ml" /\ e.call = c)
RefreshEvents(r, c) == SelectSeq(r.log, LAMBDA e : e.kind = "refresh" /\ e.call = c)
TokenWrites(r, c) ==
  SelectSeq(r.log, LAMBDA e : e.kind = "db_write" /\ e.call = c /\ e.url = TokensTable)
OauthEvents(r, c)   == SelectSeq(r.log, LAMBDA e : e.kind = "oauth" /\ e.call = c)

Active(r) == r.pc \notin {"idle", "off"}

\* C1 as stated: a first 401 always leads to exactly one refresh and exactly
\* one retry with the refreshed token, whose 401 ends the call in an error.
C1_Original ==
  \A p \in Webhooks : \A c \in Calls :
    LET r == wh[p]  ml == MlEvents(r, c) IN
    (r.pc = "done" /\ Len(ml) >= 1 /\ ml[1].status = 401)
      => /\ Len(RefreshEvents(r, c)) = 1
         /\ Len(ml) = 2
         /\ ml[2].url = ml[1].url /\ ml[2].body = ml[1].body
         /\ (ml[2].status = 401 => r.err.name = "ML")

\* C1 (amended): in mlFetchWithAutoRefresh a 401 on the first attempt triggers
\* exactly one oauthRefresh; when that refresh succeeds the same request is
\* retried exactly once with the refreshed token, and when it fails the call
\* ends in an error without a retry; a 401 on the retry ends the call in an
\* error, and there is never a second refresh or a third request.
C1_OneRefreshOneRetry ==
  \A p \in Webhooks : \A c \in Calls :
    LET r  == wh[p]
        ml == MlEvents(r, c)
        rf == RefreshEvents(r, c)
        tw == TokenWrites(r, c)
    IN  /\ Len(ml) <= 2
        /\ Len(rf) <= 1
        /\ (Len(ml) >= 1 /\ ml[1].status = 401) => Len(rf) = 1
        /\ Len(ml) = 2 =>
             /\ ml[1].status = 401
             /\ Len(tw) = 1
             /\ ml[2].url = ml[1].url /\ ml[2].body = ml[1].body
             /\ ml[2].token = tw[1].resp
        /\ (Len(tw) = 1 /\ r.pc # "ml_fetch2") => Len(ml) = 2
        /\ (Len(rf) = 1 /\ Len(tw) = 0 /\ r.pc = "done") => (Len(ml) = 1 /\ r.err # NoErr)
        /\ (Len(ml) = 2 /\ ml[2].status = 401) =>
             (r.pc = "done" /\ r.err.name = "ML" /\ r.err.status = 401)

\* A call whose first attempt and whose retry both got 401 has ended in an error.
C1_Witness ==
  \E p \in Webhooks : \E c \in Calls :
    LET ml == MlEvents(wh[p], c) IN
    /\ wh[p].pc = "done"
    /\ Len(ml) = 2 /\ ml[1].status = 401 /\ ml[2].status = 401
    /\ ml[1].token = "at1" /\ ml[2].token = "at2"

\* C2: every /ml/webhook request that has finished was answered exactly once,
\* with status 200, and no request is answered before it has finished.
C2_AlwaysOneAck ==
  \A p \in Webhooks :
    /\ wh[p].pc = "done" => wh[p].sent = <<200>>
    /\ wh[p].pc # "done" => wh[p].sent = <<>>

\* A request whose answer was submitted and whose answers upsert threw.
C2_Witness ==
  \E p \in Webhooks :
    LET r == wh[p] IN
    /\ r.pc = "done" /\ r.err = Err("DbError") /\ r.sent = <<200>>
    /\ Len(MlEvents(r, "answer")) = 1 /\ MlEvents(r, "answer")[1].status = 200

\* The row of account uid in the Token Store.
RowsOf(rows, uid) == {t \in rows : t.ml_user_id = uid}

\* C3: the update of a successful oauthRefresh always stores the access_token
\* and the expiry derived from the response, stores the response's
\* refresh_token when there is one, and keeps the stored refresh_token when
\* the response has none; rows of other accounts are untouched.
C3_RefreshKeepsRefreshToken ==
  [][\A p \in Webhooks :
       (wh[p].pc = "rf_update" /\ wh'[p].pc # "rf_update" /\ wh'[p].err = NoErr) =>
         LET r == wh[p] IN
         /\ \A t \in RowsOf(tokens, r.user_id) :
              [t EXCEPT !.access_token = r.tok.access_token,
                        !.expires_at = r.expiresAt,
                        !.refresh_token = IF r.tok.refresh_token = "none"
                                          THEN t.refresh_token
                                          ELSE r.tok.refresh_token] \in tokens'
         /\ Cardinality(RowsOf(tokens', r.user_id)) = Cardinality(RowsOf(tokens, r.user_id))
         /\ \A t \in tokens : t.ml_user_id # r.user_id => t \in tokens'
    ]_vars

\* A refresh whose response had no refresh_token was stored: the access_token
\* is the new one, the refresh_token still the one of the code exchange.
C3_Witness ==
  \E p \in Webhooks :
    /\ wh[p].pc = "ml_fetch2" /\ wh[p].tok.refresh_token = "none"
    /\ \E t \in tokens :
         /\ t.ml_user_id = wh[p].user_id
         /\ t.access_token = "at2" /\ t.refresh_token = "rt1"

\* const isQuestions = (topic && topic.toLowerCase().includes('questions')) &&
\*                     resource && resource.includes('/questions/')
DenotesQuestion(topic, resource) ==
  /\ topic.t = "string" /\ Includes(ToLowerCase(topic.v), sQuestions)
  /\ resource.t = "string" /\ Includes(resource.v, sQuestionPath)

\* C6: a notification whose topic does not denote questions, or whose resource
\* holds no question path, is acknowledged at once with no outbound call, no
\* read of the Token Store and no write to a table.
C6_FilteredDoesNothing ==
  \A p \in Webhooks :
    (Active(wh[p]) /\ ~DenotesQuestion(wh[p].topic, wh[p].resource)) =>
      /\ wh[p].pc = "done"
      /\ wh[p].sent = <<200>>
      /\ wh[p].log = <<>>

\* An orders notification was acknowledged while the tables are as they were.
C6_Witness ==
  \E p \in Webhooks :
    /\ wh[p].pc = "done" /\ wh[p].topic = Str(sOrders) /\ wh[p].resource = Str(sRes555)
    /\ wh[p].log = <<>> /\ wh[p].sent = <<200>>

\* C9: a first answer with a failure status other than 401 ends the call in an
\* error carrying that status and the body read from the response, with no
\* oauthRefresh and no retry.
C9_OtherFailureNoRefresh ==
  \A p \in Webhooks : \A c \in Calls :
    LET r == wh[p]  ml == MlEvents(r, c) IN
    (Len(ml) >= 1 /\ ml[1].status # 0 /\ ml[1].status # 401 /\ ~Ok(ml[1])) =>
      /\ Len(ml) = 1
      /\ RefreshEvents(r, c) = <<>>
      /\ OauthEvents(r, c) = <<>>
      /\ r.pc = "done"
      /\ r.err.name = "ML" /\ r.err.status = ml[1].status
      /\ r.err.text = (IF ml[1].resp = "unreadable" THEN "" ELSE ml[1].resp)

\* The item fetch got 500 and the request ended with that error.
C9_Witness ==
  \E p \in Webhooks :
    LET ml == MlEvents(wh[p], "item") IN
    /\ Len(ml) = 1 /\ ml[1].status = 500 /\ ml[1].resp = "json"
    /\ wh[p].err = [name |-> "ML", status |-> 500, text |-> "json"]

QuestionIds == {ParseId(Pop(Split(sRes555, "/"))), ParseId(Pop(Split(sRes556, "/")))}

AnswersOf(rows, k) == {a \in rows : a.question_id = k}

\* The request has run its answers upsert for question k.
Upserted(r, k) ==
  \E i \in 1..Len(r.log) :
    /\ r.log[i].kind = "db_write" /\ r.log[i].url = AnswersTable
    /\ r.log[i].body.question_id = k

\* C7: an answers upsert leaves exactly one row for its question_id, holding
\* the text of that (the latest) upsert and mode 'auto', and changes no other
\* row; after any sequence of upserts there is at most one row per question_id.
C7_UpsertOneRowLatestText ==
  [][/\ \A k \in QuestionIds : Cardinality(AnswersOf(answers', k)) <= 1
     /\ \A p \in Webhooks :
          (wh[p].pc = "ans_upsert" /\ wh'[p].pc = "done" /\ wh'[p].err = NoErr) =>
            /\ AnswersOf(answers', wh[p].q.id) =
                 {[question_id |-> wh[p].q.id, final |-> wh[p].answer, mode |-> "auto"]}
            /\ \A a \in answers : a.question_id # wh[p].q.id => a \in answers'
            /\ Cardinality(answers') =
                 Cardinality(answers) + (IF AnswersOf(answers, wh[p].q.id) = {} THEN 1 ELSE 0)
    ]_vars

\* Two upserts for question 555 with different texts left one row.
C7_Witness ==
  /\ Upserted(wh["w1"], 555) /\ Upserted(wh["w2"], 555)
  /\ wh["w1"].pc = "done" /\ wh["w2"].pc = "done"
  /\ wh["w1"].answer = FallbackText /\ wh["w2"].answer # FallbackText
  /\ answers = {[question_id |-> 555, final |-> wh["w2"].answer, mode |-> "auto"]}

AllDone == \A p \in Webhooks : wh[p].pc = "done"

\* C8 as stated: once concurrent webhooks for the same question id have all
\* finished there is exactly one Answer Record for it, with the text one of
\* them generated.
C8_Original ==
  (AllDone /\ \A p \in Webhooks : wh[p].qId = wh["w1"].qId) =>
    LET k == ParseId(wh["w1"].qId) IN
    /\ Cardinality(AnswersOf(answers, k)) = 1
    /\ \A a \in AnswersOf(answers, k) : \E p \in Webhooks : a.final = wh[p].answer

\* C8 (amended): for every interleaving of concurrently processed webhooks,
\* once all have finished there is, for each question id, exactly one Answer
\* Record if at least one of them completed its upsert for that id, with mode
\* 'auto' and the text generated by one of those, and none otherwise.
C8_ConcurrentUpsertsOneRow ==
  AllDone =>
    \A k \in QuestionIds :
      LET ups == {p \in Webhooks : Upserted(wh[p], k)} IN
      IF ups = {}
      THEN AnswersOf(answers, k) = {}
      ELSE /\ Cardinality(AnswersOf(answers, k)) = 1
           /\ \A a \in AnswersOf(answers, k) :
                a.mode = "auto" /\ \E p \in ups : a.final = wh[p].answer

\* Both webhooks upserted question 556 with different texts.
C8_Witness ==
  /\ AllDone
  /\ \A p \in Webhooks : Upserted(wh[p], 556)
  /\ wh["w1"].answer # wh["w2"].answer
  /\ Cardinality(answers) = 1

\* C10: oauthRefresh fails without a token endpoint call when the account has
\* no stored credential, fails when the answer has no access_token, and a
\* failed call leaves the Token Store as it was.
C10_FailedRefreshLeavesStore ==
  [][\A p \in Webhooks :
       LET r == wh[p]  r2 == wh'[p] IN
       /\ (r.pc = "rf_select" /\ r2.pc # "rf_select" /\ RowsOf(tokens, r.user_id) = {}) =>
            (r2.pc = "thrown" /\ OauthEvents(r2, r.call) = <<>>)
       /\ (r.pc = "rf_fetch" /\ r2.pc # "rf_fetch" /\ OauthEvents(r2, r.call) # <<>>
             /\ OauthEvents(r2, r.call)[1].resp = "none") =>
            (r2.pc = "thrown" /\ r2.err = Err("Falha no refresh_token"))
       /\ (r2.pc = "thrown" /\ r2.err = Err("refresh_token nao encontrado")) =>
            OauthEvents(r2, r.call) = <<>>
       /\ (r.pc # "thrown" /\ r2.pc = "thrown") => tokens' = tokens
       /\ (tokens' # tokens) => r2.pc \in {"returned", "off"}
    ]_vars

\* A refresh for an account without credential failed; the store holds
\* another account's row and no token endpoint call was made.
C10_Witness ==
  \E p \in Webhooks :
    /\ wh[p].pc = "thrown" /\ wh[p].err = Err("refresh_token nao encontrado")
    /\ wh[p].user_id = 43
    /\ OauthEvents(wh[p], "direct") = <<>>
    /\ \E t \in tokens : t.ml_user_id = 42

\* C4: a callback presenting a code that passed the replay guard less than two
\* minutes ago is answered 400 and does not reach the token endpoint.
C4_ReplayWithinWindowRejected ==
  [][\A p \in Callbacks :
       (/\ cb[p].pc = "idle" /\ cb'[p].pc # "idle"
        /\ cb'[p].code # ""
        /\ lastAccept[cb'[p].code] # -1
        /\ now - lastAccept[cb'[p].code] < ReplayWindowMs)
       => (cb'[p].pc = "done" /\ cb'[p].sent = <<400>>)
    ]_vars

\* C5: every code recorded in usedCodes is removed again once timers fire, and
\* a code presented when its entry is two minutes old or older passes the
\* guard as if unseen.
C5_EntriesExpire ==
  /\ \A c \in Codes : (c \in DOMAIN usedCodes) ~> (c \notin DOMAIN usedCodes)
  /\ [][\A p \in Callbacks :
          (/\ cb[p].pc = "idle" /\ cb'[p].pc # "idle"
           /\ cb'[p].code \in DOMAIN usedCodes
           /\ now - usedCodes[cb'[p].code] >= ReplayWindowMs)
          => cb'[p].pc = "cb_exchange"
       ]_vars

\* A code that was recorded is gone after its window.
C5_Witness ==
  \E c \in Codes :
    /\ lastAccept[c] # -1
    /\ now - lastAccept[c] >= ReplayWindowMs
    /\ c \notin DOMAIN usedCodes
    /\ timers = <<>>

\* The kinds of operation that leave the process or write a table.
Outbound(r) ==
  SelectSeq(r.log, LAMBDA e : e.kind \in {"ml", "refresh", "oauth", "hf", "db_write"})

\* C11: a question notification for an account without a row in the Token
\* Store is acknowledged with 200 by the step that looked the row up: the
\* request makes no marketplace call, no inference call, no oauthRefresh and
\* no write, and the answers table stays as it was.
C11_NoCredentialStops ==
  [][\A p \in Webhooks :
       (/\ wh[p].pc = "wh_select" /\ wh'[p] # wh[p]
        /\ RowsOf(tokens, wh[p].user_id) = {}) =>
         /\ wh'[p].pc = "done" /\ wh'[p].sent = <<200>>
         /\ Outbound(wh'[p]) = <<>>
         /\ answers' = answers /\ tokens' = tokens
    ]_vars

\* A question notification of the unconnected account 43 was acknowledged
\* after the lookup alone.
C11_Witness ==
  \E p \in Webhooks :
    LET r == wh[p] IN
    /\ r.pc = "done" /\ r.user_id = 43 /\ r.sent = <<200>> /\ r.err = NoErr
    /\ DenotesQuestion(r.topic, r.resource)
    /\ Len(r.log) = 1 /\ r.log[1].kind = "db_read"
    /\ RowsOf(tokens, 43) = {}

\* The log of a run in which the stored token was accepted by every call.
PipelineLog(r) ==
  <<Ev("db_read", "none", TokensTable, "none", 0, NoBody, ""),
    Ev("ml", "question", QuestionUrl(Pop(Split(r.resource.v, "/"))), r.token, 200, NoBody, "json"),
    Ev("ml", "item", ItemUrl(r.q.item_id), r.token, 200, NoBody, "json"),
    Ev("hf", "none", HfUrl, "none", 200, NoBody, ""),
    Ev("ml", "answer", AnswersUrl, r.token, 200,
       [question_id |-> r.q.id, text |-> r.answer], "json"),
    Ev("db_write", "none", AnswersTable, "none", 0,
       [question_id |-> r.q.id, text |-> r.answer], "")>>

\* Every marketplace call of the request was answered with success.
AllSucceeded(r) ==
  /\ r.err = NoErr /\ r.token # "none"
  /\ \A i \in 1..Len(r.log) : r.log[i].kind = "ml" => Ok(r.log[i])

\* C12: a question notification with a stored token, all of whose upstream
\* calls succeed, performs exactly once and in this order: the fetch of the
\* question named by the last segment of the resource, the fetch of the item
\* that question refers to, the generation, the submission of the answer, the
\* upsert of the Answer Record keyed by the fetched question's id with mode
\* 'auto'; the 200 is sent after the upsert and not before.
C12_PipelineOrder ==
  \A p \in Webhooks :
    LET r == wh[p] IN
    /\ (r.pc = "done" /\ AllSucceeded(r)) =>
         /\ r.log = PipelineLog(r)
         /\ r.q.id = ParseId(Pop(Split(r.resource.v, "/")))
         /\ [question_id |-> r.q.id, final |-> r.answer, mode |-> "auto"] \in answers
         /\ r.sent = <<200>>
    /\ (r.pc # "done" /\ Active(r) /\ AllSucceeded(r)) =>
         /\ r.sent = <<>>
         /\ Len(r.log) < Len(PipelineLog(r))
         /\ r.log = SubSeq(PipelineLog(r), 1, Len(r.log))

\* Question 556 went through the whole pipeline with a generated text.
C12_Witness ==
  \E p \in Webhooks :
    LET r == wh[p] IN
    /\ r.pc = "done" /\ AllSucceeded(r) /\ Len(r.log) = 6
    /\ r.qId = <<"5","5","6">> /\ r.q.id = 556
    /\ r.answer # FallbackText
    /\ answers = {[question_id |-> 556, final |-> r.answer, mode |-> "auto"]}

\* The code was accepted by the replay guard less than two minutes before t.
ReplayedWithinWindow(code, t) ==
  code \in Codes /\ lastAccept[code] # -1 /\ t - lastAccept[code] < ReplayWindowMs

\* The answers of /ml/callback apart from the replay case: 400 for a missing
\* code and for an exchange without access_token, 500 for an exception, 200
\* only after the credential row was written, one answer per request.
CallbackStatusRules ==
  \A p \in Callbacks :
    LET r == cb[p]  r2 == cb'[p] IN
    /\ r2.pc = "done" => Len(r2.sent) = 1
    /\ r2.pc \notin {"done", "off"} => r2.sent = <<>>
    /\ (r.pc = "idle" /\ r2.pc # "idle" /\ r2.code = "") =>
         (r2.pc = "done" /\ r2.sent = <<400>>)
    /\ r.pc = "cb_exchange" =>
         \A resp \in ExchangeResponses :
           resp.access_token = "none" =>
             CallbackExchangeStep(r, resp).sent = <<400>>
    /\ (r.pc \in {"cb_exchange", "cb_me", "cb_upsert"} /\ r2.pc = "done") =>
         /\ r2.err # NoErr <=> r2.sent = <<500>>
         /\ r2.sent \in {<<200>>, <<400>>, <<500>>}
    /\ (r.pc # "done" /\ r2.pc = "done" /\ r2.sent = <<200>>) =>
         /\ r.pc = "cb_upsert" /\ r.tok.access_token # "none"
         /\ \E t \in tokens' :
              /\ t.ml_user_id = r.meId
              /\ t.access_token = r.tok.access_token
              /\ t.refresh_token = r.tok.refresh_token

\* C13: /ml/callback answers 400 when the code is missing, when the code was
\* accepted less than two minutes ago, or when the token endpoint's answer has
\* no access_token; 500 when the exchange or the insert throws; 200 only when
\* the exchange succeeded and the credential was stored; and it answers each
\* request exactly once.
C13_CallbackStatusCodes ==
  [][/\ CallbackStatusRules
     /\ \A p \in Callbacks :
          (/\ cb[p].pc = "idle" /\ cb'[p].pc # "idle"
           /\ ReplayedWithinWindow(cb'[p].code, now))
          => (cb'[p].pc = "done" /\ cb'[p].sent = <<400>>)
    ]_vars

AccountIds(rows) == {t.ml_user_id : t \in rows}

OneRowPerAccount(rows) == \A uid \in AccountIds(rows) : Cardinality(RowsOf(rows, uid)) = 1

\* C14: the Token Store never holds two rows of one account; the upsert of a
\* code exchange leaves exactly one row for its account, holding the tokens
\* and the expiry of that exchange, and touches no other row; oauthRefresh
\* neither adds nor removes a row.
C14_OneRowPerAccount ==
  /\ OneRowPerAccount(tokens)
  /\ [][/\ OneRowPerAccount(tokens')
        /\ \A p \in Callbacks :
             (cb[p].pc = "cb_upsert" /\ cb'[p].sent = <<200>>) =>
               /\ RowsOf(tokens', cb[p].meId) =
                    {[ml_user_id |-> cb[p].meId,
                      access_token |-> cb[p].tok.access_token,
                      refresh_token |-> cb[p].tok.refresh_token,
                      expires_at |-> cb[p].expiresAt]}
               /\ AccountIds(tokens') = AccountIds(tokens) \cup {cb[p].meId}
               /\ \A t \in tokens : t.ml_user_id # cb[p].meId => t \in tokens'
        /\ (\E p \in Webhooks : wh'[p] # wh[p]) =>
             /\ AccountIds(tokens') = AccountIds(tokens)
             /\ Cardinality(tokens') = Cardinality(tokens)
    ]_vars

\* Account 42 was refreshed (its row held at2) and then connected again: its
\* single row holds the tokens of the exchange, next to the row of account 43.
C14_Witness ==
  /\ cb["c1"].pc = "done" /\ cb["c1"].sent = <<200>>
  /\ wh["w1"].pc = "returned" /\ wh["w1"].user_id = 42 /\ wh["w1"].newToken = "at2"
  /\ wh["w1"].tok.refresh_token = "rt2"
  /\ RowsOf(tokens, 42) =
       {[ml_user_id |-> 42, access_token |-> "at1", refresh_token |-> "rt1",
         expires_at |-> ExpiresAt(0, 3600)]}
  /\ Cardinality(tokens) = 2

\* C15: /ml/callback sends its 200 in the step that has written the tokens of
\* the exchange answer to the account's row, and oauthRefresh hands out a new
\* access token only in the step that has written it to the account's row.
C15_WriteThrough ==
  [][/\ \A p \in Callbacks :
          (cb[p].pc # "done" /\ cb'[p].pc = "done" /\ cb'[p].sent = <<200>>) =>
            /\ cb[p].tok.access_token # "none"
            /\ \E t \in tokens' :
                 /\ t.ml_user_id = cb[p].meId
                 /\ t.access_token = cb[p].tok.access_token
                 /\ t.refresh_token = cb[p].tok.refresh_token
     /\ \A p \in Webhooks :
          /\ (wh[p].pc = "rf_update" /\ wh'[p].pc \in {"returned", "ml_fetch2"}) =>
               /\ wh'[p].newToken = wh[p].tok.access_token
               /\ wh'[p].newToken # "none"
               /\ \E t \in tokens' :
                    t.ml_user_id = wh[p].user_id /\ t.access_token = wh'[p].newToken
          /\ (wh'[p].newToken # wh[p].newToken /\ wh'[p].newToken # "none") =>
               (wh[p].pc = "rf_update" /\ wh'[p].pc \in {"returned", "ml_fetch2"})
    ]_vars

\* oauthRefresh returned at2 for account 43 and the callback confirmed the
\* connection of account 42; both rows hold what was reported.
C15_Witness ==
  /\ wh["w1"].pc = "returned" /\ wh["w1"].user_id = 43 /\ wh["w1"].newToken = "at2"
  /\ \E t \in tokens : t.ml_user_id = 43 /\ t.access_token = "at2"
  /\ cb["c1"].pc = "done" /\ cb["c1"].sent = <<200>>
  /\ \E t \in tokens : t.ml_user_id = 42 /\ t.access_token = "at1"

\* data is an array whose first element carries a non-empty generated_text.
ExpectedShape(data) == data.shape = "array" /\ data.generated_text # <<>>

\* C16: generateAI always returns to the handler, which goes on to submit the
\* answer: when the inference call fails (no response, a body that is not
\* JSON) or its JSON has another shape than a non-empty array with
\* generated_text, the text is the static fallback reply.
C16_GenerateAINeverPropagates ==
  [][\A p \in Webhooks :
       (wh[p].pc = "ai_fetch" /\ wh'[p] # wh[p]) =>
         /\ wh'[p].pc = "ml_fetch1" /\ wh'[p].call = "answer"
         /\ wh'[p].err = NoErr
         /\ wh'[p].body = [question_id |-> wh[p].q.id, text |-> wh'[p].answer]
         /\ \A data \in HfData :
              ~ExpectedShape(data) => AiFetchStep(wh[p], data).answer = FallbackText
         /\ (\E i \in 1..Len(wh'[p].log) :
               wh'[p].log[i].kind = "hf" /\ wh'[p].log[i].status = 0)
              => wh'[p].answer = FallbackText
    ]_vars

\* No contact term is left in the text.
NoContact(t) == \A i \in 1..Len(t) : t[i].k # "contact"

\* C17: the text generateAI returns has at most 900 characters, for every
\* inference answer and for the fallback, contact terms already replaced; so
\* have the text submitted to the marketplace and the text stored in an
\* Answer Record.
C17_AnswerLengthBound ==
  /\ \A data \in HfData :
       /\ TextLen(PostProcess(PickText(data))) <= MaxAnswerLen
       /\ NoContact(PostProcess(PickText(data)))
  /\ TextLen(PostProcess(FallbackText)) <= MaxAnswerLen
  /\ \A p \in Webhooks :
       /\ TextLen(wh[p].answer) <= MaxAnswerLen
       /\ NoContact(wh[p].answer)
       /\ \A i \in 1..Len(wh[p].log) : TextLen(wh[p].log[i].body.text) <= MaxAnswerLen
  /\ \A a \in answers : TextLen(a.final) <= MaxAnswerLen /\ NoContact(a.final)

\* A generated text of 918 characters with a contact term was stored with
\* exactly 900 characters, cut inside the replacement.
C17_Witness ==
  \E a \in answers :
    /\ TextLen(a.final) = MaxAnswerLen
    /\ Len(a.final) = 2 /\ a.final[2].k = "canon" /\ a.final[2].n < CanonLen

HfEvents(r) == SelectSeq(r.log, LAMBDA e : e.kind = "hf")

AnswerWrites(r) ==
  SelectSeq(r.log, LAMBDA e : e.kind = "db_write" /\ e.url = AnswersTable)

\* The attempts of call c that were not answered 401.
FinalAttempts(r, c) == SelectSeq(MlEvents(r, c), LAMBDA e : e.status # 401)

\* The answer submission of the request was answered with success.
Submitted(r) ==
  LET ml == MlEvents(r, "answer") IN Len(ml) >= 1 /\ Ok(ml[Len(ml)])

DeclaredTtl(expires_in) == IF expires_in = NoTtl THEN 6 * 60 * 60 ELSE expires_in

\* C20: the expiry computed for a successful exchange or refresh is the time
\* of the computation plus the declared TTL, or plus six hours when the
\* answer declares none; it is never earlier than that time, and it is the
\* expiry the account's row holds after the write.
C20_ExpiryIsNowPlusTtl ==
  [][/\ \A p \in Webhooks :
          /\ (wh[p].pc = "rf_fetch" /\ wh'[p].pc = "rf_update") =>
               /\ wh'[p].expiresAt = now + DeclaredTtl(wh'[p].tok.expires_in) * 1000
               /\ wh'[p].expiresAt >= now
          /\ (wh[p].pc = "rf_update" /\ wh'[p].pc \in {"returned", "ml_fetch2"}) =>
               \A t \in RowsOf(tokens', wh[p].user_id) : t.expires_at = wh[p].expiresAt
     /\ \A p \in Callbacks :
          /\ (cb[p].pc = "cb_me" /\ cb'[p].pc = "cb_upsert") =>
               /\ cb'[p].expiresAt = now + DeclaredTtl(cb[p].tok.expires_in) * 1000
               /\ cb'[p].expiresAt >= now
          /\ (cb[p].pc = "cb_upsert" /\ cb'[p].sent = <<200>>) =>
               \A t \in RowsOf(tokens', cb[p].meId) : t.expires_at = cb[p].expiresAt
    ]_vars

\* C21: the replay guard records a code before its exchange is attempted and
\* a failed exchange does not remove the record, so as long as no exchange
\* has succeeded a code presented again less than two minutes after it
\* passed the guard is answered 400 without reaching the token endpoint.
C21_FailedCodeStillRejected ==
  [][\A p \in Callbacks :
       /\ (cb[p].pc = "idle" /\ cb'[p].pc = "cb_exchange") =>
            /\ cb'[p].code \in DOMAIN usedCodes'
            /\ usedCodes'[cb'[p].code] = now
       /\ (cb[p].pc = "cb_exchange" /\ cb'[p].pc = "done") =>
            (usedCodes' = usedCodes /\ timers' = timers)
       /\ (/\ cb[p].pc = "idle" /\ cb'[p].pc # "idle"
           /\ tokens = {}
           /\ ReplayedWithinWindow(cb'[p].code, now))
          => (cb'[p].pc = "done" /\ cb'[p].sent = <<400>>)
    ]_vars

\* The request has passed the replay guard and is not answered yet.
InFlight(r) == r.pc \in {"cb_exchange", "cb_me", "cb_upsert"}

\* C22: while a /ml/callback request that passed the guard is being handled,
\* every other request carrying the same code less than two minutes after
\* that code passed the guard is answered 400 and does not reach the token
\* endpoint, whatever the interleaving.
C22_OneExchangePerCode ==
  [][\A p, q \in Callbacks :
       (/\ p # q
        /\ InFlight(cb[q])
        /\ cb[p].pc = "idle" /\ cb'[p].pc # "idle"
        /\ cb'[p].code = cb[q].code
        /\ ReplayedWithinWindow(cb'[p].code, now))
       => (cb'[p].pc = "done" /\ cb'[p].sent = <<400>>)
    ]_vars

\* C23: a /ml/callback request rejected as a replay changes neither usedCodes
\* nor the pending eviction timers: the first-seen time of its code stays, so
\* the code passes the guard again once that time is two minutes old, however
\* often it was replayed in between.
C23_ReplayLeavesMapUnchanged ==
  [][\A p \in Callbacks :
       /\ (/\ cb[p].pc = "idle" /\ cb'[p].pc = "done"
           /\ cb'[p].code # "" /\ cb'[p].sent = <<400>>) =>
            /\ IsReplay(cb'[p].code, now)
            /\ usedCodes' = usedCodes
            /\ timers' = timers
       /\ (/\ cb[p].pc = "idle" /\ cb'[p].pc # "idle"
           /\ usedCodes' # usedCodes) =>
            /\ cb'[p].pc = "cb_exchange"
            /\ ~IsReplay(cb'[p].code, now)
            /\ Len(timers') = Len(timers) + 1
    ]_vars

\* While the request that passed the guard with codeA at time 0 awaits the
\* token endpoint, a second request with codeA was rejected; a minute later
\* the entry still holds time 0 and the one timer of the acceptance is pending.
C23_Witness ==
  /\ cb["c1"].pc = "cb_exchange" /\ cb["c1"].code = "codeA"
  /\ cb["c2"].pc = "done" /\ cb["c2"].code = "codeA" /\ cb["c2"].sent = <<400>>
  /\ now = TickMs
  /\ DOMAIN usedCodes = {"codeA"} /\ usedCodes["codeA"] = 0
  /\ timers = <<[code |-> "codeA", due |-> ReplayWindowMs]>>

\* The steps oauthRefresh performs: its read, its token endpoint call, its write.
IsRefreshWork(e) ==
  \/ e.kind = "oauth"
  \/ e.kind \in {"db_read", "db_write"} /\ e.url = TokensTable /\ e.call # "none"

\* C24: every invocation of oauthRefresh directly follows a 401 answer to the
\* first attempt of the marketplace call it belongs to, and the token
\* endpoint and the Token Store are touched by a refresh only after such an
\* invocation: nothing is refreshed after a success or another failure, in
\* the filter or the token lookup, or because the stored expiry has passed.
C24_RefreshOnlyOn401 ==
  \A p \in Webhooks :
    LET r == wh[p] IN
    /\ \A i \in 1..Len(r.log) :
         /\ r.log[i].kind = "refresh" =>
              /\ i > 1
              /\ r.log[i - 1].kind = "ml" /\ r.log[i - 1].status = 401
              /\ r.log[i - 1].call = r.log[i].call
              /\ Len(MlEvents([r EXCEPT !.log = SubSeq(r.log, 1, i)], r.log[i].call)) = 1
         /\ IsRefreshWork(r.log[i]) =>
              \E j \in 1..(i - 1) :
                r.log[j].kind = "refresh" /\ r.log[j].call = r.log[i].call
    /\ r.pc \in {"rf_select", "rf_fetch", "rf_update"} =>
         /\ Len(RefreshEvents(r, r.call)) = 1
         /\ MlEvents(r, r.call)[1].status = 401
    /\ (\A c \in Calls : RefreshEvents(r, c) = <<>>) =>
         (r.newToken = "none" /\ r.rtok = "none")

\* A notification of account 42 went through the whole pipeline without a
\* refresh although the stored expiry had passed.
C24_Witness ==
  \E p \in Webhooks :
    LET r == wh[p] IN
    /\ r.pc = "done" /\ AllSucceeded(r) /\ Len(r.log) = 6
    /\ \A c \in Calls : RefreshEvents(r, c) = <<>>
    /\ \E t \in tokens :
         t.ml_user_id = r.user_id /\ t.access_token = r.token /\ t.expires_at < now

\* The handler's own reads of the Token Store (line 167), as opposed to the
\* reads oauthRefresh makes.
TokenLookups(r) ==
  SelectSeq(r.log, LAMBDA e : e.kind = "db_read" /\ e.call = "none" /\ e.url = TokensTable)

AllMlEvents(r)      == SelectSeq(r.log, LAMBDA e : e.kind = "ml")
AllRefreshEvents(r) == SelectSeq(r.log, LAMBDA e : e.kind = "refresh")

\* C25: one processing looks the access token up once; the first attempt of
\* each of its marketplace calls carries that value, whatever earlier calls
\* refreshed; each call refreshes at most once and sends at most two
\* requests, so a processing makes at most three refreshes and six
\* marketplace requests.
C25_SameTokenToEachCall ==
  \A p \in Webhooks :
    LET r == wh[p] IN
    /\ Len(TokenLookups(r)) <= 1
    /\ \A c \in Calls :
         /\ MlEvents(r, c) # <<>> =>
              /\ Len(TokenLookups(r)) = 1
              /\ MlEvents(r, c)[1].token = r.token
              /\ MlEvents(r, c)[1].token = MlEvents(r, "question")[1].token
         /\ Len(RefreshEvents(r, c)) <= 1
         /\ Len(MlEvents(r, c)) <= 2
    /\ Len(AllRefreshEvents(r)) <= 3
    /\ Len(AllMlEvents(r)) <= 6

\* A processing in which each of the three calls was answered 401 with the
\* token read at the start, refreshed and retried: three refreshes and six
\* marketplace requests, the later first attempts still carrying the old token.
C25_Witness ==
  \E p \in Webhooks :
    LET r == wh[p] IN
    /\ r.pc = "done"
    /\ Len(AllRefreshEvents(r)) = 3
    /\ Len(AllMlEvents(r)) = 6
    /\ \A c \in Calls :
         /\ MlEvents(r, c)[1].status = 401
         /\ MlEvents(r, c)[1].token = Connected42.access_token
         /\ MlEvents(r, c)[2].token # Connected42.access_token

====
